---- MODULE Spec2Model ----
(***************************************************************************)
(* A model of src/node/src/webuntis.js: the WebUntis client class, its    *)
(* date/time codec (parseUntisTime, parseUntisDate, parseUntisDateTime,    *)
(* dateToUntisDate), its session handling (authenticate and the three     *)
(* read operations) and the timetable normalisation of getTimetableWeek.   *)
(*                                                                         *)
(* JavaScript strings are sequences of one-character strings, JavaScript   *)
(* numbers are records [nan, v] so that NaN is a value of its own, and a   *)
(* JavaScript Date is a record of its local calendar fields plus a         *)
(* validity flag (an Invalid Date has valid = FALSE).                      *)
(***************************************************************************)
EXTENDS Integers, Sequences, FiniteSets

VARIABLES
    untisTime, timeResult, timePc,
    today, dateIn, untisDate, dateOut, datePc,
    payload, ttToday, periods, ttResult, ttPc,
    school, personId, sessionId, calls, everAuthenticated

timeVars == <<untisTime, timeResult, timePc>>
dateVars == <<today, dateIn, untisDate, dateOut, datePc>>
ttVars == <<payload, ttToday, periods, ttResult, ttPc>>
clientVars == <<school, personId, sessionId, calls, everAuthenticated>>
vars == <<timeVars, dateVars, ttVars, clientVars>>

(***************************************************************************)
(* Bounds of the model.                                                    *)
(***************************************************************************)
NumYears == 2
MaxPeriods == 3
MaxElements == 2
MaxCalls == 2

Years == 2023..(2022 + NumYears)

(***************************************************************************)
(* JavaScript numbers and strings.                                         *)
(***************************************************************************)
NaN == [nan |-> TRUE, v |-> 0]
Num(n) == [nan |-> FALSE, v |-> n]

DigitChars == <<"0", "1", "2", "3", "4", "5", "6", "7", "8", "9">>
IsDigit(c) == \E d \in 1..10 : DigitChars[d] = c
DigitVal(c) == (CHOOSE d \in 1..10 : DigitChars[d] = c) - 1

RECURSIVE toString(_)
toString(n) ==
    IF n < 10 THEN <<DigitChars[n + 1]>>
    ELSE Append(toString(n \div 10), DigitChars[(n % 10) + 1])

padStart(s, targetLength, padChar) ==
    IF Len(s) >= targetLength THEN s
    ELSE [i \in 1..(targetLength - Len(s)) |-> padChar] \o s

slice(s, from, to) ==
    SubSeq(s, from + 1, IF to < Len(s) THEN to ELSE Len(s))

RECURSIVE trimStart(_)
trimStart(s) ==
    IF s # <<>> /\ Head(s) = " " THEN trimStart(Tail(s)) ELSE s

RECURSIVE trimEnd(_)
trimEnd(s) ==
    IF s # <<>> /\ s[Len(s)] = " " THEN trimEnd(SubSeq(s, 1, Len(s) - 1)) ELSE s

trim(s) == trimEnd(trimStart(s))

RECURSIVE DigitPrefixValue(_, _)
DigitPrefixValue(s, acc) ==
    IF s # <<>> /\ IsDigit(Head(s))
    THEN DigitPrefixValue(Tail(s), acc * 10 + DigitVal(Head(s)))
    ELSE acc

\* parseInt: skips leading white space, reads the longest prefix of digits,
\* and gives NaN when that prefix is empty.
parseInt(s) ==
    LET t == trimStart(s) IN
    IF t = <<>> \/ ~IsDigit(Head(t)) THEN NaN ELSE Num(DigitPrefixValue(t, 0))

(***************************************************************************)
(* parseUntisTime                                                          *)
(***************************************************************************)
parseUntisTime(time) ==
    LET timeString == padStart(toString(time), 4, " ") IN
    [hour |-> parseInt(trim(slice(timeString, 0, 2))),
     minute |-> parseInt(trim(slice(timeString, 2, 4)))]

(***************************************************************************)
(* JavaScript Date: local calendar fields, normalised the way the Date     *)
(* setters normalise them (MakeDay / MakeTime overflow into the next       *)
(* field).  Months are 0-based as in JavaScript.                           *)
(***************************************************************************)
IsLeap(y) == (y % 4 = 0 /\ y % 100 # 0) \/ y % 400 = 0

DaysIn(y, m) ==
    IF m = 1 THEN (IF IsLeap(y) THEN 29 ELSE 28)
    ELSE IF m \in {3, 5, 8, 10} THEN 30 ELSE 31

InvalidDate ==
    [valid |-> FALSE, y |-> 0, m |-> 0, d |-> 0, h |-> 0, mi |-> 0, s |-> 0, ms |-> 0]

DateOnly(y, m, d) ==
    [valid |-> TRUE, y |-> y, m |-> m, d |-> d, h |-> 0, mi |-> 0, s |-> 0, ms |-> 0]

\* A value of `new Date()`: some instant of that day, with a time of day.
Clock(y, m, d) ==
    [valid |-> TRUE, y |-> y, m |-> m, d |-> d, h |-> 13, mi |-> 37, s |-> 42, ms |-> 7]

\* Carries a day of the month beyond the month's end into the following months.
RECURSIVE MakeDay(_, _, _)
MakeDay(y, m, d) ==
    IF d <= DaysIn(y, m) THEN [y |-> y, m |-> m, d |-> d]
    ELSE IF m = 11 THEN MakeDay(y + 1, 0, d - DaysIn(y, m))
    ELSE MakeDay(y, m + 1, d - DaysIn(y, m))

WithDay(date, ymd) == [date EXCEPT !.y = ymd.y, !.m = ymd.m, !.d = ymd.d]

setDate(date, day) ==
    IF ~date.valid \/ day.nan THEN InvalidDate
    ELSE WithDay(date, MakeDay(date.y, date.m, day.v))

\* setFullYear on an Invalid Date starts again from time value +0.
setFullYear(date, year) ==
    IF year.nan THEN InvalidDate
    ELSE IF ~date.valid
    THEN [valid |-> TRUE, y |-> year.v, m |-> 0, d |-> 1, h |-> 0, mi |-> 0, s |-> 0, ms |-> 0]
    ELSE WithDay(date, MakeDay(year.v, date.m, date.d))

setMonth(date, month) ==
    IF ~date.valid \/ month.nan THEN InvalidDate
    ELSE WithDay(date, MakeDay(date.y, month.v, date.d))

setHours(date, hour) ==
    IF ~date.valid \/ hour.nan THEN InvalidDate
    ELSE [WithDay(date, MakeDay(date.y, date.m, date.d + (hour.v \div 24)))
             EXCEPT !.h = hour.v % 24]

setMinutes(date, minute) ==
    IF ~date.valid \/ minute.nan THEN InvalidDate
    ELSE LET carried == setHours(date, Num(date.h + (minute.v \div 60)))
         IN [carried EXCEPT !.mi = minute.v % 60]

setSeconds(date, sec) ==
    IF ~date.valid \/ sec.nan THEN InvalidDate
    ELSE LET carried == setMinutes(date, Num(date.mi + (sec.v \div 60)))
         IN [carried EXCEPT !.s = sec.v % 60]

setMilliseconds(date, msec) ==
    IF ~date.valid \/ msec.nan THEN InvalidDate
    ELSE LET carried == setSeconds(date, Num(date.s + (msec.v \div 1000)))
         IN [carried EXCEPT !.ms = msec.v % 1000]

Minus(a, b) == IF a.nan \/ b.nan THEN NaN ELSE Num(a.v - b.v)
Plus(a, b) == IF a.nan \/ b.nan THEN NaN ELSE Num(a.v + b.v)

(***************************************************************************)
(* parseUntisDate, parseUntisDateTime, dateToUntisDate.  `current` is the  *)
(* value of `new Date()` at the moment of the call; `dateString` is the    *)
(* argument after toString().                                              *)
(***************************************************************************)
parseUntisDate(dateString, current) ==
    LET year == parseInt(slice(dateString, 0, 4))
        month == parseInt(slice(dateString, 4, 6))
        day == parseInt(slice(dateString, 6, 8))
        d1 == setDate(current, day)
        d2 == setFullYear(d1, year)
        d3 == setMonth(d2, Minus(month, Num(1)))
        d4 == setHours(d3, Num(0))
        d5 == setMinutes(d4, Num(0))
        d6 == setSeconds(d5, Num(0))
    IN setMilliseconds(d6, Num(0))

parseUntisDateTime(dateString, time, current) ==
    LET date == parseUntisDate(dateString, current)
        t == parseUntisTime(time)
        withHours == setHours(date, Plus(t.hour, Num(1)))
    IN setMinutes(withHours, t.minute)

dateToUntisDate(date, separator) ==
    LET day == padStart(toString(date.d), 2, "0")
        month == padStart(toString(date.m + 1), 2, "0")
    IN toString(date.y) \o separator \o month \o separator \o day

(***************************************************************************)
(* Date arithmetic: `a.startDate - b.startDate` subtracts the time values  *)
(* of the two Dates, and the time value of an Invalid Date is NaN.         *)
(***************************************************************************)
RECURSIVE DaysBeforeMonth(_, _)
DaysBeforeMonth(y, m) ==
    IF m = 0 THEN 0 ELSE DaysBeforeMonth(y, m - 1) + DaysIn(y, m - 1)

DayNumber(y, m, d) ==
    365 * y + ((y - 1) \div 4) - ((y - 1) \div 100) + ((y - 1) \div 400)
        + DaysBeforeMonth(y, m) + d

\* The time value of a Date, split into whole minutes since the start of the
\* proleptic calendar and the milliseconds within the minute.
minutesOf(date) == (DayNumber(date.y, date.m, date.d) * 24 + date.h) * 60 + date.mi
millisOf(date) == date.s * 1000 + date.ms

sign(n) == IF n < 0 THEN -1 ELSE IF n > 0 THEN 1 ELSE 0

\* a - b for two Dates, reduced to its sign (all that sort reads of it);
\* NaN when either Date is invalid.
dateDifference(a, b) ==
    IF ~a.valid \/ ~b.valid THEN NaN
    ELSE IF minutesOf(a) # minutesOf(b) THEN Num(sign(minutesOf(a) - minutesOf(b)))
    ELSE Num(sign(millisOf(a) - millisOf(b)))

(***************************************************************************)
(* getTimetableWeek, the normalisation of the weekly payload.              *)
(* payload.elements is data.elements, payload.periods is                   *)
(* data.elementPeriods[data.elementIds[0]].                                *)
(***************************************************************************)
SeqsUpTo(S, n) == UNION {[1..k -> S] : k \in 0..n}

\* First loop: the raw elements of one type, in payload order.
byType(rawElements, type) == SelectSeq(rawElements, LAMBDA e : e.type = type)

typesOf(rawElements) == {rawElements[i].type : i \in 1..Len(rawElements)}

\* The reduce with an unconditional `acc[cur.id] = cur`: the last element
\* per id is kept.
reduceByIdLastWins(list) ==
    [id \in {list[i].id : i \in 1..Len(list)} |->
        list[CHOOSE i \in 1..Len(list) :
                /\ list[i].id = id
                /\ \A j \in 1..Len(list) : list[j].id = id => j <= i]]

\* The reduce over one type's list: `if (!acc[cur.id]) acc[cur.id] = cur`.
reduceById(list) ==
    [id \in {list[i].id : i \in 1..Len(list)} |->
        list[CHOOSE i \in 1..Len(list) :
                /\ list[i].id = id
                /\ \A j \in 1..Len(list) : list[j].id = id => i <= j]]

\* elements[type][id] after both loops.
elementsIndex(rawElements) ==
    [type \in typesOf(rawElements) |-> reduceById(byType(rawElements, type))]

\* rawPer.elements.filter((e) => e.type == 3)
subjectRefs(rawPer) == SelectSeq(rawPer.elements, LAMBDA e : e.type = 3)

\* elements['3'][ ...[0].id ].name evaluates without a TypeError exactly when
\* the filter is non-empty, elements['3'] exists and holds that id.
subjectResolves(elements, rawPer) ==
    /\ subjectRefs(rawPer) # <<>>
    /\ 3 \in DOMAIN elements
    /\ subjectRefs(rawPer)[1].id \in DOMAIN elements[3]

timetableEntry(elements, rawPer, current) ==
    [startDate |-> parseUntisDateTime(toString(rawPer.date), rawPer.startTime, current),
     endDate |-> parseUntisDateTime(toString(rawPer.date), rawPer.endTime, current),
     subject |-> elements[3][subjectRefs(rawPer)[1].id].name,
     cancelled |-> (rawPer.cancelled = "true")]

\* The comparator of periods.sort, as Array.prototype.sort reads it: a NaN
\* result counts as +0.
compare(a, b) ==
    LET v == dateDifference(a.startDate, b.startDate)
    IN IF v.nan THEN 0 ELSE v.v

\* ECMAScript's "consistent comparator" over the values being sorted.
consistentComparator(list) ==
    LET c == [i \in 1..Len(list) |-> [j \in 1..Len(list) |-> compare(list[i], list[j])]]
    IN \A i, j, k \in 1..Len(list) :
          /\ (c[i][j] = 0 /\ c[j][k] = 0) => c[i][k] = 0
          /\ (c[i][j] < 0 /\ c[j][k] < 0) => c[i][k] < 0
          /\ (c[i][j] > 0 /\ c[j][k] > 0) => c[i][k] > 0

RECURSIVE insertSorted(_, _)
insertSorted(sorted, x) ==
    IF sorted = <<>> THEN <<x>>
    ELSE IF compare(Head(sorted), x) <= 0
         THEN <<Head(sorted)>> \o insertSorted(Tail(sorted), x)
         ELSE <<x>> \o sorted

RECURSIVE stableSort(_)
stableSort(list) ==
    IF list = <<>> THEN <<>>
    ELSE insertSorted(stableSort(SubSeq(list, 1, Len(list) - 1)), list[Len(list)])

Bijections(n) == {p \in [1..n -> 1..n] : \A i, j \in 1..n : p[i] = p[j] => i = j}

Permutations(list) == {[i \in 1..Len(list) |-> list[p[i]]] : p \in Bijections(Len(list))}

\* Array.prototype.sort: stable for a consistent comparator; for an
\* inconsistent one the order is implementation-defined.
sortOutcomes(list) ==
    IF consistentComparator(list) THEN {stableSort(list)} ELSE Permutations(list)

\* The for loop over rawPeriods: the entries pushed before the first period
\* whose subject lookup throws, and whether one threw.
RECURSIVE pushPeriods(_, _, _)
pushPeriods(elements, rawPeriods, current) ==
    IF rawPeriods = <<>> THEN [threw |-> FALSE, periods |-> <<>>]
    ELSE IF ~subjectResolves(elements, Head(rawPeriods))
    THEN [threw |-> TRUE, periods |-> <<>>]
    ELSE LET rest == pushPeriods(elements, Tail(rawPeriods), current)
         IN [threw |-> rest.threw,
             periods |-> <<timetableEntry(elements, Head(rawPeriods), current)>>
                            \o rest.periods]

\* A normalisation that reads elements['3'] before the loop over the periods.
normalizeEager(data, current) ==
    IF 3 \notin typesOf(data.elements) THEN [threw |-> TRUE, periods |-> <<>>]
    ELSE pushPeriods(elementsIndex(data.elements), data.periods, current)

\* Lines 316-381: the index, then the loop over the raw periods.
normalize(data, current) ==
    pushPeriods(elementsIndex(data.elements), data.periods, current)

(***************************************************************************)
(* The WebUntis instance.  JavaScript values that may be undefined, null,  *)
(* a number or a string are records [tag, num, str].                       *)
(***************************************************************************)
undefined == [tag |-> "undefined", num |-> 0, str |-> ""]
null == [tag |-> "null", num |-> 0, str |-> ""]
JNum(n) == [tag |-> "number", num |-> n, str |-> ""]
JStr(t) == [tag |-> "string", num |-> 0, str |-> t]

absent(v) == v.tag \in {"undefined", "null"}

\* `!v`
falsy(v) ==
    \/ absent(v)
    \/ (v.tag = "number" /\ v.num = 0)
    \/ (v.tag = "string" /\ v.str = "")

NoDate == [given |-> FALSE, date |-> InvalidDate]
Given(date) == [given |-> TRUE, date |-> date]

NoPair == [sessionId |-> undefined, personId |-> undefined]
NoYear == [name |-> undefined, startDate |-> InvalidDate, endDate |-> InvalidDate]
NoValue == [pair |-> NoPair, list |-> <<>>, year |-> NoYear]

NoRequest ==
    [method |-> "", school |-> "", personId |-> undefined, sessionId |-> undefined,
     dates |-> <<>>]

NoResponse == [ok |-> FALSE, text |-> ""]

NoResult == [present |-> FALSE, sessionId |-> undefined, personId |-> undefined]

\* One call slot: an invocation of a public method, its outbound request (if
\* it got that far), the transport's answer and how the promise settled.
\* `requests` counts the calls of fetch.  `atCall` is this.sessionId /
\* this.personId when the method was invoked; `before` and `after` are their
\* values right before and right after the step that settled the call;
\* `result` is the `result` member of the reply authenticate received.
IdleCall ==
    [op |-> "none", phase |-> "idle", requests |-> 0, request |-> NoRequest,
     answered |-> FALSE, response |-> NoResponse, result |-> NoResult,
     outcome |-> "none", error |-> "", value |-> NoValue,
     atCall |-> NoPair, before |-> NoPair, after |-> NoPair]

Slots == 1..MaxCalls

\* The synchronous part of a method threw: the promise is rejected and
\* fetch was never called.
session == [sessionId |-> sessionId, personId |-> personId]

rejected(op, outcome) ==
    [IdleCall EXCEPT !.op = op, !.phase = "settled", !.outcome = outcome,
                     !.atCall = session, !.before = session, !.after = session]

\* The method reached `await WebUntis.request(...)`: fetch is called once.
awaiting(op, req) ==
    [IdleCall EXCEPT !.op = op, !.phase = "pending", !.requests = @ + 1,
                     !.request = req, !.atCall = session]

failed(call, response, outcome, text) ==
    [call EXCEPT !.phase = "settled", !.answered = TRUE, !.response = response,
                 !.outcome = outcome, !.error = text,
                 !.before = session, !.after = session]

returned(call, response, value) ==
    [call EXCEPT !.phase = "settled", !.answered = TRUE, !.response = response,
                 !.outcome = "returned", !.value = value,
                 !.before = session, !.after = session]

\* A request that does not look at result.ok.
requestSwallowsFailure(response) ==
    [threw |-> FALSE, message |-> ""]

\* WebUntis.request: a response that is not ok makes it throw an Error
\* whose message is the response text; otherwise it gives the parsed body.
request(response) ==
    IF ~response.ok THEN [threw |-> TRUE, message |-> response.text]
    ELSE [threw |-> FALSE, message |-> ""]

Schools == {JStr(""), JStr("borglinz")}
Usernames == {undefined, JStr(""), JStr("user")}
Passwords == {undefined, JStr("pw")}
ErrorTexts == {"Bad Gateway", "Service Unavailable"}
Responses == [ok : {FALSE}, text : ErrorTexts] \cup {[ok |-> TRUE, text |-> ""]}

\* The `result` member of the authenticate reply: missing altogether (an
\* RPC error reply), or an object whose two fields may each be missing.
SessionIds == {undefined, JStr(""), JStr("0123456789abcdef0123456789abcdef")}
PersonIds == {undefined, JNum(0), JNum(7)}
AuthResults ==
    {NoResult}
        \cup [present : {TRUE}, sessionId : SessionIds, personId : PersonIds]

(***************************************************************************)
(* constructor                                                             *)
(***************************************************************************)
Construct(name) ==
    /\ \A i \in Slots : calls[i].phase = "idle"
    /\ ~falsy(name)
    /\ school' = name
    /\ personId' = null
    /\ sessionId' = null
    /\ everAuthenticated' = FALSE
    /\ UNCHANGED <<calls, timeVars, dateVars, ttVars>>

(***************************************************************************)
(* authenticate                                                            *)
(***************************************************************************)
\* The test without `|| !personId`.
missingResponseDataSessionOnly(sid, pid) == falsy(sid)

\* `if (!sessionId || !personId)`
missingResponseData(sid, pid) == falsy(sid) \/ falsy(pid)

Authenticate(i, username, password) ==
    /\ calls[i].phase = "idle"
    /\ calls' = [calls EXCEPT ![i] =
          IF falsy(username) \/ falsy(password)
          THEN rejected("authenticate", "InsufficientArguments")
          ELSE awaiting("authenticate",
                        [NoRequest EXCEPT !.method = "POST authenticate",
                                          !.school = school.str])]
    /\ UNCHANGED <<school, personId, sessionId, everAuthenticated,
                   timeVars, dateVars, ttVars>>

AuthenticateSettles(i, response, result) ==
    /\ calls[i].phase = "pending"
    /\ calls[i].op = "authenticate"
    \* a reply that is not ok has no parsed body to choose
    /\ response.ok \/ ~result.present
    /\ LET r == request(response)
           pair == [sessionId |-> result.sessionId, personId |-> result.personId]
           stores == /\ ~r.threw
                     /\ result.present
                     /\ ~missingResponseData(result.sessionId, result.personId)
           got(call) == [call EXCEPT !.result = result]
       IN /\ calls' = [calls EXCEPT ![i] =
                IF r.threw THEN failed(@, response, "RequestFailed", r.message)
                ELSE IF ~result.present THEN failed(got(@), response, "TypeError", "")
                ELSE IF ~stores THEN failed(got(@), response, "MissingResponseData", "")
                ELSE [returned(got(@), response, [NoValue EXCEPT !.pair = pair])
                         EXCEPT !.after = pair]]
          /\ personId' = IF stores THEN result.personId ELSE personId
          /\ sessionId' = IF stores THEN result.sessionId ELSE sessionId
          /\ everAuthenticated' = (everAuthenticated \/ stores)
    /\ UNCHANGED <<school, timeVars, dateVars, ttVars>>

(***************************************************************************)
(* Inputs of the read operations.                                          *)
(***************************************************************************)
\* new Date() at the moment a reply is processed.
Clocks == {Clock(2023, 1, 15)}

DateArgs == {NoDate, Given(Clock(2023, 8, 13))}

RawAbsence ==
    [startDate |-> 20230131, startTime |-> 800, endDate |-> 20230131,
     endTime |-> 1230, isExcused |-> TRUE]

\* The reply of the absences endpoint: `data` missing, or data.absences
\* null or an array.
AbsenceReplies ==
    {[present |-> FALSE, isArray |-> FALSE, absences |-> <<>>],
     [present |-> TRUE, isArray |-> FALSE, absences |-> <<>>],
     [present |-> TRUE, isArray |-> TRUE, absences |-> <<>>],
     [present |-> TRUE, isArray |-> TRUE, absences |-> <<RawAbsence>>]}

\* The `result` member of the getCurrentSchoolyear reply.
YearReplies ==
    {[present |-> FALSE, name |-> undefined, startDate |-> undefined, endDate |-> undefined],
     [present |-> TRUE, name |-> undefined, startDate |-> JNum(20230911),
      endDate |-> JNum(20240705)],
     [present |-> TRUE, name |-> JStr("2023/2024"), startDate |-> JNum(20230911),
      endDate |-> undefined],
     [present |-> TRUE, name |-> JStr("2023/2024"), startDate |-> JNum(20230911),
      endDate |-> JNum(20240705)]}

\* The raw elements and raw periods a weekly payload is made of.
EntitySet ==
    [type : {3}, id : {1}, name : {"Math", "Art"}]
        \cup [type : {2}, id : {1}, name : {"Huber"}]
RefLists ==
    {<<[type |-> 2, id |-> 1]>>,
     <<[type |-> 2, id |-> 1], [type |-> 3, id |-> 1], [type |-> 3, id |-> 2]>>}
\* `cancelled` is rawPer.is.cancelled: undefined or true.
PeriodSet ==
    [date : {20230911}, startTime : {30, 800, 900}, endTime : {945},
     elements : RefLists, cancelled : {"undefined"}]
        \cup {[date |-> 20230911, startTime |-> 800, endTime |-> 945,
               elements |-> refs, cancelled |-> "true"] :
                  refs \in {r \in RefLists : Len(r) > 1}}

\* The weekly reply: result.data.result.data missing, or a payload.
EmptyPayload == [elements |-> <<>>, periods |-> <<>>]
WeekReplies ==
    {[present |-> FALSE, data |-> EmptyPayload]}
        \cup [present : {TRUE},
              data : [elements : SeqsUpTo({e \in EntitySet : e.name = "Math"}, 1),
                      periods : SeqsUpTo({q \in PeriodSet : q.startTime = 800}, 1)]]

(***************************************************************************)
(* startOfISOWeek (date-fns): the Monday of the date's week, at 00:00.     *)
(***************************************************************************)
RECURSIVE daysBack(_, _, _, _)
daysBack(y, m, d, k) ==
    IF k = 0 THEN [y |-> y, m |-> m, d |-> d]
    ELSE IF d > 1 THEN daysBack(y, m, d - 1, k - 1)
    ELSE IF m > 0 THEN daysBack(y, m - 1, DaysIn(y, m - 1), k - 1)
    ELSE daysBack(y - 1, 11, 31, k - 1)

\* 0 = Monday; 11 September 2023 was a Monday.
isoWeekday(date) == (DayNumber(date.y, date.m, date.d) - DayNumber(2023, 8, 11)) % 7

startOfISOWeek(date) ==
    LET monday == daysBack(date.y, date.m, date.d, isoWeekday(date))
    IN DateOnly(monday.y, monday.m, monday.d)

(***************************************************************************)
(* getAbsences                                                             *)
(***************************************************************************)
GetAbsences(i, startDate, endDate) ==
    /\ calls[i].phase = "idle"
    /\ calls' = [calls EXCEPT ![i] =
          IF falsy(sessionId) THEN rejected("getAbsences", "Unauthenticated")
          ELSE IF ~startDate.given \/ ~endDate.given
          THEN rejected("getAbsences", "InsufficientArguments")
          ELSE awaiting("getAbsences",
                        [NoRequest EXCEPT
                            !.method = "GET absences",
                            !.personId = personId,
                            !.sessionId = sessionId,
                            !.dates = <<dateToUntisDate(startDate.date, <<>>),
                                        dateToUntisDate(endDate.date, <<>>)>>])]
    /\ UNCHANGED <<school, personId, sessionId, everAuthenticated,
                   timeVars, dateVars, ttVars>>

absence(e, current) ==
    [startDate |-> parseUntisDateTime(toString(e.startDate), e.startTime, current),
     endDate |-> parseUntisDateTime(toString(e.endDate), e.endTime, current),
     excused |-> e.isExcused]

GetAbsencesSettles(i, response, reply, current) ==
    /\ calls[i].phase = "pending"
    /\ calls[i].op = "getAbsences"
    /\ response.ok \/ ~reply.present
    /\ LET r == request(response)
       IN calls' = [calls EXCEPT ![i] =
             IF r.threw THEN failed(@, response, "RequestFailed", r.message)
             ELSE IF ~reply.present THEN failed(@, response, "TypeError", "")
             ELSE IF ~reply.isArray THEN failed(@, response, "MissingResponseData", "")
             ELSE returned(@, response,
                           [NoValue EXCEPT !.list =
                               [k \in 1..Len(reply.absences) |->
                                   absence(reply.absences[k], current)]])]
    /\ UNCHANGED <<school, personId, sessionId, everAuthenticated,
                   timeVars, dateVars, ttVars>>

(***************************************************************************)
(* getCurrentSchoolyear                                                    *)
(***************************************************************************)
GetCurrentSchoolyear(i) ==
    /\ calls[i].phase = "idle"
    /\ calls' = [calls EXCEPT ![i] =
          IF falsy(sessionId) THEN rejected("getCurrentSchoolyear", "Unauthenticated")
          ELSE awaiting("getCurrentSchoolyear",
                        [NoRequest EXCEPT !.method = "POST getCurrentSchoolyear",
                                          !.school = school.str,
                                          !.sessionId = sessionId])]
    /\ UNCHANGED <<school, personId, sessionId, everAuthenticated,
                   timeVars, dateVars, ttVars>>

GetCurrentSchoolyearSettles(i, response, reply, current) ==
    /\ calls[i].phase = "pending"
    /\ calls[i].op = "getCurrentSchoolyear"
    /\ response.ok \/ ~reply.present
    /\ LET r == request(response)
       IN calls' = [calls EXCEPT ![i] =
             IF r.threw THEN failed(@, response, "RequestFailed", r.message)
             ELSE IF ~reply.present THEN failed(@, response, "TypeError", "")
             ELSE IF falsy(reply.name) \/ falsy(reply.startDate) \/ falsy(reply.endDate)
             THEN failed(@, response, "MissingResponseData", "")
             ELSE returned(@, response,
                           [NoValue EXCEPT !.year =
                               [name |-> reply.name,
                                startDate |-> parseUntisDate(toString(reply.startDate.num),
                                                             current),
                                endDate |-> parseUntisDate(toString(reply.endDate.num),
                                                           current)]])]
    /\ UNCHANGED <<school, personId, sessionId, everAuthenticated,
                   timeVars, dateVars, ttVars>>

(***************************************************************************)
(* getTimetableWeek                                                        *)
(***************************************************************************)
GetTimetableWeek(i, date) ==
    /\ calls[i].phase = "idle"
    /\ calls' = [calls EXCEPT ![i] =
          IF ~date.given THEN rejected("getTimetableWeek", "InsufficientArguments")
          ELSE IF falsy(sessionId) THEN rejected("getTimetableWeek", "Unauthenticated")
          ELSE awaiting("getTimetableWeek",
                        [NoRequest EXCEPT
                            !.method = "GET timetable",
                            !.personId = personId,
                            !.sessionId = sessionId,
                            !.dates = <<dateToUntisDate(startOfISOWeek(date.date),
                                                        <<"-">>)>>])]
    /\ UNCHANGED <<school, personId, sessionId, everAuthenticated,
                   timeVars, dateVars, ttVars>>

GetTimetableWeekSettles(i, response, reply, current) ==
    /\ calls[i].phase = "pending"
    /\ calls[i].op = "getTimetableWeek"
    /\ response.ok \/ ~reply.present
    /\ \E r \in {request(response)}, n \in {normalize(reply.data, current)} :
          IF r.threw
          THEN calls' = [calls EXCEPT ![i] = failed(@, response, "RequestFailed", r.message)]
          ELSE IF ~reply.present \/ n.threw
          THEN calls' = [calls EXCEPT ![i] = failed(@, response, "TypeError", "")]
          ELSE \E sorted \in sortOutcomes(n.periods) :
                  calls' = [calls EXCEPT ![i] =
                               returned(@, response, [NoValue EXCEPT !.list = sorted])]
    /\ UNCHANGED <<school, personId, sessionId, everAuthenticated,
                   timeVars, dateVars, ttVars>>

\* The caller has taken the settled promise's result; the slot is free again.
Release(i) ==
    /\ calls[i].phase = "settled"
    /\ calls' = [calls EXCEPT ![i] = IdleCall]
    /\ UNCHANGED <<school, personId, sessionId, everAuthenticated,
                   timeVars, dateVars, ttVars>>

(***************************************************************************)
(* Specifications.  Each one drives one part of the program and leaves the *)
(* variables of the other parts at rest.                                   *)
(***************************************************************************)
TimeIdle ==
    /\ untisTime = 0
    /\ timeResult = [hour |-> NaN, minute |-> NaN]
    /\ timePc = "off"

DateIdle ==
    /\ today = InvalidDate
    /\ dateIn = InvalidDate
    /\ untisDate = <<>>
    /\ dateOut = InvalidDate
    /\ datePc = "off"

TimetableIdle ==
    /\ payload = EmptyPayload
    /\ ttToday = InvalidDate
    /\ periods = <<>>
    /\ ttResult = [outcome |-> "none", value |-> <<>>]
    /\ ttPc = "off"

ClientIdle ==
    /\ school = JStr("borglinz")
    /\ personId = null
    /\ sessionId = null
    /\ calls = [i \in Slots |-> IdleCall]
    /\ everAuthenticated = FALSE

\* SpecTime: parseUntisTime on every HHMM integer.
TimeValues == {h * 100 + m : h \in 0..23, m \in 0..59}

InitTime ==
    /\ untisTime \in TimeValues
    /\ timeResult = [hour |-> NaN, minute |-> NaN]
    /\ timePc = "start"
    /\ DateIdle /\ TimetableIdle /\ ClientIdle

ParseTime ==
    /\ timePc = "start"
    /\ timeResult' = parseUntisTime(untisTime)
    /\ timePc' = "done"
    /\ UNCHANGED <<untisTime, dateVars, ttVars, clientVars>>

NextTime == ParseTime

SpecTime == InitTime /\ [][NextTime]_vars

\* SpecDate: dateToUntisDate, then parseUntisDate of its result, for every
\* calendar date of Years and for calls made in every month of Years.
CalendarDates ==
    UNION {{DateOnly(y, m, d) : d \in 1..DaysIn(y, m)} : y \in Years, m \in 0..11}

InitDate ==
    /\ today \in {Clock(y, m, d) : y \in Years, m \in 0..11, d \in {1, 28}}
    /\ dateIn \in CalendarDates
    /\ untisDate = <<>>
    /\ dateOut = InvalidDate
    /\ datePc = "start"
    /\ TimeIdle /\ TimetableIdle /\ ClientIdle

FormatDate ==
    /\ datePc = "start"
    /\ untisDate' = dateToUntisDate(dateIn, <<>>)
    /\ datePc' = "formatted"
    /\ UNCHANGED <<today, dateIn, dateOut, timeVars, ttVars, clientVars>>

ParseDate ==
    /\ datePc = "formatted"
    /\ dateOut' = parseUntisDate(untisDate, today)
    /\ datePc' = "parsed"
    /\ UNCHANGED <<today, dateIn, untisDate, timeVars, ttVars, clientVars>>

NextDate == FormatDate \/ ParseDate

SpecDate == InitDate /\ [][NextDate]_vars

\* SpecTimetable: the normalisation of getTimetableWeek on every payload of
\* at most MaxElements raw elements and MaxPeriods raw periods.
InitTimetable ==
    /\ payload \in [elements : SeqsUpTo(EntitySet, MaxElements),
                    periods : SeqsUpTo(PeriodSet, MaxPeriods)]
    /\ ttToday \in Clocks
    /\ periods = <<>>
    /\ ttResult = [outcome |-> "none", value |-> <<>>]
    /\ ttPc = "start"
    /\ TimeIdle /\ DateIdle /\ ClientIdle

Normalize ==
    /\ ttPc = "start"
    /\ \E n \in {normalize(payload, ttToday)} :
          /\ periods' = n.periods
          /\ IF n.threw
             THEN ttResult' = [outcome |-> "TypeError", value |-> <<>>]
             ELSE \E sorted \in sortOutcomes(n.periods) :
                     ttResult' = [outcome |-> "returned", value |-> sorted]
    /\ ttPc' = "done"
    /\ UNCHANGED <<payload, ttToday, timeVars, dateVars, clientVars>>

NextTimetable == Normalize

SpecTimetable == InitTimetable /\ [][NextTimetable]_vars

\* Spec: one WebUntis instance and up to MaxCalls method calls in flight.
Init == ClientIdle /\ TimeIdle /\ DateIdle /\ TimetableIdle

Next ==
    \/ \E name \in Schools : Construct(name)
    \/ \E i \in Slots, u \in Usernames, pw \in Passwords : Authenticate(i, u, pw)
    \/ \E i \in Slots, response \in Responses, result \in AuthResults :
          AuthenticateSettles(i, response, result)
    \/ \E i \in Slots, startDate \in DateArgs, endDate \in DateArgs :
          GetAbsences(i, startDate, endDate)
    \/ \E i \in Slots, response \in Responses, reply \in AbsenceReplies, current \in Clocks :
          GetAbsencesSettles(i, response, reply, current)
    \/ \E i \in Slots : GetCurrentSchoolyear(i)
    \/ \E i \in Slots, response \in Responses, reply \in YearReplies, current \in Clocks :
          GetCurrentSchoolyearSettles(i, response, reply, current)
    \/ \E i \in Slots, date \in DateArgs : GetTimetableWeek(i, date)
    \/ \E i \in Slots, response \in Responses, reply \in WeekReplies, current \in Clocks :
          GetTimetableWeekSettles(i, response, reply, current)
    \/ \E i \in Slots : Release(i)

Spec == Init /\ [][Next]_vars

(***************************************************************************)
(* Claims.                                                                 *)
(***************************************************************************)
ReadOps == {"getAbsences", "getCurrentSchoolyear", "getTimetableWeek"}

\* C1: on a client on which authenticate has never succeeded, every call of
\* getAbsences, getTimetableWeek or getCurrentSchoolyear, whatever its
\* arguments, fails with the unauthenticated error and fetch is never called.
C1_UnauthenticatedWhateverArguments ==
    \A i \in Slots :
        (~everAuthenticated /\ calls[i].op \in ReadOps)
            => /\ calls[i].phase = "settled"
               /\ calls[i].outcome = "Unauthenticated"
               /\ calls[i].requests = 0

\* C2: a read operation invoked while personId or the session token is
\* absent fails before fetch is called; no request of a read operation is
\* sent for an absent personId or with an absent session token.
C2_NoRequestWithoutSession ==
    \A i \in Slots :
        calls[i].op \in ReadOps =>
            /\ (absent(calls[i].atCall.personId) \/ absent(calls[i].atCall.sessionId))
                  => /\ calls[i].phase = "settled"
                     /\ calls[i].outcome \in {"Unauthenticated", "InsufficientArguments"}
                     /\ calls[i].requests = 0
            /\ calls[i].requests > 0
                  => /\ ~absent(calls[i].request.sessionId)
                     /\ calls[i].request.sessionId = calls[i].atCall.sessionId
                     /\ calls[i].op # "getCurrentSchoolyear"
                           => /\ ~absent(calls[i].request.personId)
                              /\ calls[i].request.personId = calls[i].atCall.personId

\* One read call was refused on the still empty session and, after an
\* authenticate, another one has its request out.
C2_Witness ==
    \E i, j \in Slots :
        /\ calls[i].op \in ReadOps
        /\ calls[i].outcome = "Unauthenticated"
        /\ absent(calls[i].atCall.sessionId)
        /\ calls[j].op \in ReadOps
        /\ calls[j].phase = "pending"
        /\ calls[j].requests = 1

lacksSessionData(result) ==
    ~result.present \/ absent(result.sessionId) \/ absent(result.personId)

\* C3: authenticate fails with the protocol error ('Missing response data')
\* and leaves personId and the session token unchanged when the reply lacks
\* sessionId or personId; it also fails, leaving them unchanged, on empty
\* arguments or a reply that is not ok; only when both are present does it
\* store both and return exactly that pair.
C3_AuthenticateStoresOnlyCompletePair ==
    \A i \in Slots :
        (calls[i].op = "authenticate" /\ calls[i].phase = "settled") =>
            /\ (calls[i].answered /\ calls[i].response.ok /\ lacksSessionData(calls[i].result))
                  => /\ calls[i].outcome = "MissingResponseData"
                     /\ calls[i].after = calls[i].before
            /\ (~calls[i].answered \/ ~calls[i].response.ok)
                  => /\ calls[i].outcome \in {"InsufficientArguments", "RequestFailed"}
                     /\ calls[i].after = calls[i].before
            /\ calls[i].outcome = "returned"
                  => /\ ~lacksSessionData(calls[i].result)
                     /\ calls[i].after = [sessionId |-> calls[i].result.sessionId,
                                          personId |-> calls[i].result.personId]
                     /\ calls[i].value.pair = calls[i].after

\* C4: every invocation calls fetch at most once; when the reply is not ok
\* the operation fails with the request-failed error carrying the reply's
\* body, returns nothing and sends nothing more.
C4_OneRequestNoRetry ==
    \A i \in Slots :
        /\ calls[i].requests <= 1
        /\ (calls[i].phase = "settled" /\ calls[i].answered /\ ~calls[i].response.ok)
              => /\ calls[i].outcome = "RequestFailed"
                 /\ calls[i].error = calls[i].response.text
                 /\ calls[i].value = NoValue
                 /\ calls[i].requests = 1

\* A read operation and an authenticate have both been answered "not ok".
C4_Witness ==
    \E i, j \in Slots :
        /\ calls[i].op = "authenticate"
        /\ calls[j].op \in ReadOps
        /\ \A k \in {i, j} :
              /\ calls[k].phase = "settled"
              /\ calls[k].answered
              /\ ~calls[k].response.ok
              /\ calls[k].outcome = "RequestFailed"

\* C5: for every HHMM integer v (0 <= v <= 2359, minutes below 60),
\* parseUntisTime(v) is hour = v div 100 and minute = v mod 100.
C5_TimeIsDivMod ==
    timePc = "done" =>
        timeResult = [hour |-> Num(untisTime \div 100), minute |-> Num(untisTime % 100)]

\* C6: parseUntisDate(dateToUntisDate(D)) is D, with a zero time of day,
\* for every calendar date D and whatever the current date.
C6_DateRoundTrip ==
    datePc = "parsed" => dateOut = dateIn

\* The ids of the type-3 raw elements of the payload.
subjectIds == {payload.elements[k].id :
                  k \in {n \in 1..Len(payload.elements) : payload.elements[n].type = 3}}

firstSubjectRef(rawPer) ==
    rawPer.elements[CHOOSE k \in 1..Len(rawPer.elements) :
                       /\ rawPer.elements[k].type = 3
                       /\ \A n \in 1..(k - 1) : rawPer.elements[n].type # 3]

hasSubject(rawPer) ==
    /\ \E k \in 1..Len(rawPer.elements) : rawPer.elements[k].type = 3
    /\ firstSubjectRef(rawPer).id \in subjectIds

\* C7: a period without a type-3 reference, or whose type-3 id is not in
\* the index, makes getTimetableWeek fail with the missing-reference error,
\* not with an undefined-access failure.
C7_MissingReferenceError ==
    (ttPc = "done" /\ \E k \in 1..Len(payload.periods) : ~hasSubject(payload.periods[k]))
        => ttResult.outcome = "MissingReferenceError"

startsBefore(a, b) ==
    /\ a.startDate.valid
    /\ b.startDate.valid
    /\ \/ minutesOf(a.startDate) < minutesOf(b.startDate)
       \/ /\ minutesOf(a.startDate) = minutesOf(b.startDate)
          /\ millisOf(a.startDate) < millisOf(b.startDate)

\* C8: the returned sequence is a permutation of the resolved entries, no
\* entry comes after one that starts later, and entries that are not ordered
\* by their start keep their payload order.
C8_SortedStablePermutation ==
    (ttPc = "done" /\ ttResult.outcome = "returned") =>
        \E p \in Bijections(Len(periods)) :
            /\ Len(ttResult.value) = Len(periods)
            /\ \A k \in 1..Len(periods) : ttResult.value[k] = periods[p[k]]
            /\ \A k, n \in 1..Len(periods) :
                  k < n => /\ ~startsBefore(ttResult.value[n], ttResult.value[k])
                           /\ ~startsBefore(ttResult.value[k], ttResult.value[n])
                                 => p[k] < p[n]

firstSubjectElement(id) ==
    payload.elements[CHOOSE k \in 1..Len(payload.elements) :
                        /\ payload.elements[k].type = 3
                        /\ payload.elements[k].id = id
                        /\ \A n \in 1..(k - 1) :
                              ~(payload.elements[n].type = 3 /\ payload.elements[n].id = id)]

\* C10: the subject of the entry of a raw period is the name of the first
\* type-3 element of the payload whose id is the id of the period's first
\* type-3 reference; when every period has such an element the operation
\* returns one entry per period.
C10_SubjectFirstWinsTypeIsolated ==
    ttPc = "done" =>
        /\ Len(periods) <= Len(payload.periods)
        /\ \A k \in 1..Len(periods) :
              /\ hasSubject(payload.periods[k])
              /\ periods[k].subject =
                    firstSubjectElement(firstSubjectRef(payload.periods[k]).id).name
        /\ (\A k \in 1..Len(payload.periods) : hasSubject(payload.periods[k]))
              => /\ ttResult.outcome = "returned"
                 /\ Len(periods) = Len(payload.periods)

\* Two type-3 elements share the id the period refers to, the period's
\* references start with one of another type and end with a second type-3
\* one, and the entry carries the first element's name.
C10_Witness ==
    /\ ttPc = "done"
    /\ ttResult.outcome = "returned"
    /\ Len(payload.elements) = 2
    /\ payload.elements[1] = [type |-> 3, id |-> 1, name |-> "Art"]
    /\ payload.elements[2] = [type |-> 3, id |-> 1, name |-> "Math"]
    /\ Len(periods) > 0
    /\ Len(payload.periods[1].elements) = 3
    /\ periods[1].subject = "Art"

====
